---- MODULE Spec2Model ----
(***************************************************************************)
(* Model of mic2key: the audio capture engine (AudioRecorder, thread       *)
(* model; AsyncAudioRecorder, cooperative model) and the session state     *)
(* machine VoiceInputSystem that drives it from hotkey callbacks.          *)
(*                                                                         *)
(* Conventions.  Durations are integers in milliseconds (the source holds  *)
(* seconds as floats: chunk_duration 0.1 is ChunkMs = 100).  Python None   *)
(* is NoneDuration (-1) for max_duration and 0 for a thread, task,         *)
(* callback, path or text reference.  _audio_data is None before the first *)
(* start; every reader in the source treats None and [] alike, so it is    *)
(* the empty sequence here.                                                *)
(***************************************************************************)
EXTENDS Integers, Sequences, FiniteSets, TLC

\* ------------------------------------------------------------------ bounds
MaxWorkers == 2
MaxReads == 4
SysMaxReads == 11
MaxHotkeys == 3
ClockMaxReads == 11
MaxTicks == 12
MaxKeyEvents == 5
MaxCalls == 4

\* ------------------------------------------------------- program constants
ChunkMs == 100
NoneDuration == -1

\* Configurations the engine is constructed with.
\* <<sample_rate, channels>>
Formats == {<<16000, 1>>, <<22055, 2>>}
MaxDurations == {NoneDuration, 0, 100, 250, 300}
Callbacks == {0, 1}

\* The engine under a clock: the waits of the client and the caps it is
\* constructed with.
Waits == {500}
ClockMaxDurations == {NoneDuration, 250, 1000}
\* The caps of the engine under fair scheduling.
FairMaxDurations == {NoneDuration, 250}

\* VoiceInputSystem builds AudioRecorder(max_duration=..., file_manager=...):
\* 16000 Hz, mono, --max-duration an integer number of seconds.
SysSampleRate == 16000
SysChannels == 1
SysMaxDurations == {0, 1000}

\* What model.transcribe can return as result["text"], as character sequences.
RawTexts == {<<>>, <<" ">>, <<"h", "i">>, <<" ", "h", "i", " ">>}

\* Keys the listener can see: the two Ctrl keys, the two Shift keys, Space
\* and one key outside the combination.
Keys == {"ctrl_l", "ctrl_r", "shift_l", "shift_r", "space", "a"}

Callers == {"client", "listener", "listener2", "main"}
Listeners == {"listener", "listener2"}
Workers == 1..MaxWorkers

VARIABLES
    driver,             \* "client": the engine used on its own; "system": inside
                        \* VoiceInputSystem; "clock": the engine under a clock;
                        \* "keys": the hotkey listener on its own; "parts": the
                        \* collaborators called directly
    model,              \* "thread" (AudioRecorder) or "coop" (AsyncAudioRecorder)
    sample_rate, channels, max_duration,
    is_recording, stop_event, audio_data,
    recording_thread, async_task, progress_callback,
    nworkers,           \* capture workers created so far
    wpc,                \* position of each capture worker
    wchunk,             \* worker local: audio_chunk, <<worker, read number>>
    reads,              \* reads made on each worker's open input stream
    appended,           \* history: the chunks appended since the last start, in order
    capped,             \* history: a worker of this session stopped at the cap
    failed,             \* history: what raised in this session's worker ("no", "open", "read")
    late,               \* history: chunks appended in this session after the stop event was set
    progress,           \* <<v>>: the value last passed to the progress callback in
                        \* this session; <<>>: none yet
    start_time,         \* worker local: start_time
    now,                \* the clock, in milliseconds
    deadline,           \* when the client's pending sleep ends
    started_at,         \* when the client's last accepted start_recording returned
    stopped_at,         \* when the client last called stop_recording
    ready,              \* the run loop's ready queue (0 = the client's task)
    waiting,            \* history: tasks ready when a capture task last yielded, not run since
    pc,                 \* position of each calling thread / task
    start_ret,          \* value last returned by start_recording to the caller
    stop_ret,           \* value last returned by stop_recording (path, 0 = None)
    data,               \* stop_recording local: audio_data after concatenate
    files,              \* files created by the file manager, by path 1..Len
    state,              \* SystemState: "idle", "recording", "processing"
    running,            \* VoiceInputSystem.running
    listening,          \* the hotkey listener is started and not stopped
    whisper_model,      \* TranscriptionHandler.model is loaded
    audio_file,         \* _stop_recording_and_process local, per callback thread
    transcribed_text,   \* _stop_recording_and_process local (<<>> = None)
    cycle,              \* collaborator calls made by the callback in flight, in order
    typed,              \* texts handed to Controller.type, in order
    hotkeys,            \* hotkey callbacks dispatched so far
    ignored,            \* "Hotkey pressed while in ... state - ignoring" warnings logged
    exit_code,          \* <<c>>: the process has exited with code c; <<>>: it runs
    pressed_keys,       \* HotkeyListener.pressed_keys
    invoked,            \* times HotkeyListener has called hotkey_callback
    nkeys,              \* key events delivered to HotkeyListener so far
    last,               \* the last direct call of a collaborator and what it returned
    ncalls              \* direct calls of collaborators so far

config == <<driver, model, sample_rate, channels, max_duration>>
engine == <<is_recording, stop_event, audio_data, recording_thread, async_task,
            progress_callback>>
workers == <<nworkers, wpc, wchunk, reads, appended, capped, failed, late,
             progress, start_time>>
callers == <<pc, start_ret, stop_ret, data>>
system == <<state, running, listening, whisper_model, audio_file, transcribed_text,
            cycle, typed, hotkeys, ignored>>
clock == <<now, deadline, started_at, stopped_at>>
loop == <<ready, waiting>>
parts == <<exit_code, pressed_keys, invoked, nkeys, last, ncalls>>
vars == <<config, parts, clock, loop, engine, workers, callers, files, system>>

\* ----------------------------------------------------------------- helpers
\* Python truthiness of max_duration: None and 0 are falsy.
\* Mutant: only None is falsy, a maximum of 0 counts as a cap.
Truthy_ZeroCounts(d) == d # NoneDuration

Truthy(d) == d # NoneDuration /\ d # 0

\* int(chunk_duration * self.sample_rate)
ChunkFrames(rate) == rate \div 10

\* Mutant: only the first chunk is kept.
Concatenate_FirstOnly(chunks, ch) ==
    [chunks |-> <<chunks[1].id>>,
     frames |-> chunks[1].frames,
     ndim |-> IF ch = 1 THEN 1 ELSE 2]

\* Mutant: the chunk count is compared with the cap, the chunk duration forgotten.
CapReached_CountNotDuration(n, d) == Truthy(d) /\ n >= d

\* total_duration >= self.max_duration, with total_duration = n * chunk_duration
CapReached(n, d) == Truthy(d) /\ n * ChunkMs >= d

NoChunk == <<0, 0>>

NoData == [chunks |-> <<>>, frames |-> 0, ndim |-> 0]

RECURSIVE SumFrames(_)
SumFrames(s) == IF s = <<>> THEN 0 ELSE Head(s).frames + SumFrames(Tail(s))

\* np.concatenate(self._audio_data, axis=0), flattened when mono
Concatenate(chunks, ch) ==
    [chunks |-> [i \in 1..Len(chunks) |-> chunks[i].id],
     frames |-> SumFrames(chunks),
     ndim |-> IF ch = 1 THEN 1 ELSE 2]

Timed == driver = "clock"

\* Reads the model follows on one input stream.
ReadLimit ==
    IF driver = "client" THEN MaxReads
    ELSE IF driver = "system" THEN SysMaxReads
    ELSE ClockMaxReads

Alive(w) == wpc[w] \notin {"none", "done"}

\* The worker stop_recording waits for.
Joined == IF model = "thread" THEN recording_thread ELSE async_task

\* Mutant: stop_recording does not wait for the worker.
JoinDone_NoWait(w) == TRUE

\* self._recording_thread.join() / await self._async_task has returned
JoinDone(w) == w = 0 \/ wpc[w] = "done"

\* Mutant: a read takes two chunk periods.
Due_TwoPeriods(w) == start_time[w] + 2 * ChunkMs * (reads[w] + 1)

\* stream.read blocks until chunk_frames frames have arrived: the k-th read on
\* a stream returns k chunk periods after the stream was opened.
Due(w) == start_time[w] + ChunkMs * (reads[w] + 1)

ReadDue(w) == Timed => now >= Due(w)

\* progress = min(elapsed / self.max_duration, 1.0), or elapsed (seconds), in
\* thousandths; elapsed is in milliseconds.
Min(a, b) == IF a <= b THEN a ELSE b

\* Mutant: the ratio is passed on without the min.
Progress_NoMin(elapsed, d) ==
    IF Truthy(d) THEN (elapsed * 1000) \div d ELSE elapsed

Progress(elapsed, d) ==
    IF Truthy(d) THEN Min((elapsed * 1000) \div d, 1000) ELSE elapsed

\* Cooperative model: one run loop.  A task holds the loop from the moment it
\* is resumed until its next await; callbacks made ready (a created task, a
\* task after sleep(0), the waiter of a finished task or future, a timer that
\* is due) join the tail of the ready queue and the loop resumes the head.
ClientTask == 0

Queued(x) == \E i \in 1..Len(ready) : ready[i] = x

Elements(q) == {q[i] : i \in 1..Len(q)}

Without(q, x) == SelectSeq(q, LAMBDA y : y # x)

WorkerRunning(w) == wpc[w] \in {"check", "read", "cap", "append", "except"}

ClientRunning ==
    /\ ~Queued(ClientTask)
    /\ pc["client"] \notin {"sleep", "stop_save"}
    /\ ~(pc["client"] = "stop_join" /\ ~JoinDone(Joined))

LoopFree == ~ClientRunning /\ \A w \in Workers : ~WorkerRunning(w)

\* the loop runs its ready callbacks first in, first out
NextToRun(q) == Head(q)

\* Mutant: the loop resumes the head of the queue while another task runs.
CanResume_Preempting(x) == ready # <<>> /\ NextToRun(ready) = x

CanResume(x) == LoopFree /\ ready # <<>> /\ NextToRun(ready) = x

\* Task x goes on: resumed by the loop if it had been suspended.
Resume(x) ==
    IF model = "coop" /\ Queued(x)
    THEN /\ CanResume(x)
         /\ ready' = Without(ready, x)
         /\ waiting' = [v \in Workers |-> waiting[v] \ {x}]
    ELSE UNCHANGED loop

\* A caller is executing (not suspended at an await).
CallerCanRun == model = "thread" \/ ClientRunning

\* The task awaiting worker w is made ready when w finishes.
WakeJoiner(w) ==
    IF model = "coop" /\ pc["client"] = "stop_join" /\ Joined = w
       /\ ~Queued(ClientTask)
    THEN Append(ready, ClientTask)
    ELSE ready

\* -------------------------------------------------------------------- Init
EngineInit ==
    /\ is_recording = FALSE
    /\ stop_event = FALSE
    /\ audio_data = <<>>
    /\ recording_thread = 0
    /\ async_task = 0
    /\ progress_callback = 0
    /\ nworkers = 0
    /\ wpc = [w \in Workers |-> "none"]
    /\ wchunk = [w \in Workers |-> NoChunk]
    /\ reads = [w \in Workers |-> 0]
    /\ appended = <<>>
    /\ capped = FALSE
    /\ failed = "no"
    /\ late = 0
    /\ progress = <<>>
    /\ start_time = [w \in Workers |-> 0]
    /\ now = 0
    /\ deadline = 0
    /\ started_at = 0
    /\ stopped_at = 0
    /\ ready = <<>>
    /\ waiting = [w \in Workers |-> {}]
    /\ start_ret = [t \in Callers |-> FALSE]
    /\ stop_ret = [t \in Callers |-> 0]
    /\ data = [t \in Callers |-> NoData]
    /\ files = <<>>

SystemInit ==
    /\ state = "idle"
    /\ running = TRUE
    /\ listening = FALSE
    /\ whisper_model = FALSE
    /\ audio_file = [t \in Listeners |-> 0]
    /\ transcribed_text = [t \in Listeners |-> <<>>]
    /\ cycle = [t \in Listeners |-> <<>>]
    /\ typed = <<>>
    /\ hotkeys = 0
    /\ ignored = 0

\* No collaborator has been called directly and no key event delivered.
NoCall == [op |-> "none", path |-> 0, text |-> <<>>, ok |-> FALSE, count |-> 0]

\* Paths a caller can pass: those the file manager has handed out.
Paths == 1..MaxCalls

PartsInit ==
    /\ exit_code = <<>>
    /\ pressed_keys = {}
    /\ invoked = 0
    /\ nkeys = 0
    /\ last = NoCall
    /\ ncalls = 0

\* An engine constructed on its own and driven by one client.
Init ==
    /\ driver = "client"
    /\ model \in {"thread", "coop"}
    /\ \E f \in Formats : sample_rate = f[1] /\ channels = f[2]
    /\ max_duration \in MaxDurations
    /\ pc = [t \in Callers |-> "idle"]
    /\ EngineInit
    /\ SystemInit
    /\ PartsInit

\* ------------------------------------------------------- start_recording
\* Mutant: start_recording without its "already in progress" test.
AlreadyRecording_Unchecked == FALSE

\* Mutant: start_recording tests whether the worker is alive, not the flag.
AlreadyRecording_WorkerAlive == Joined # 0 /\ Alive(Joined)

AlreadyRecording == is_recording

\* Mutant: a rejected start still resets the buffer.
StartRejected_Resets(t) ==
    /\ start_ret' = [start_ret EXCEPT ![t] = FALSE]
    /\ audio_data' = <<>>
    /\ UNCHANGED <<is_recording, stop_event, recording_thread, async_task,
                   progress_callback, workers>>

StartRejected(t) ==
    /\ start_ret' = [start_ret EXCEPT ![t] = FALSE]
    /\ UNCHANGED <<engine, workers>>

\* Mutant: start_recording keeps the buffer of the session before.
BufferAfterStart_Kept == audio_data

\* self._audio_data = [] in start_recording
BufferAfterStart == <<>>

\* The thread (or task) is created and started.
StartAccepted(t, cb) ==
    /\ nworkers < MaxWorkers
    /\ is_recording' = TRUE
    /\ stop_event' = FALSE
    /\ audio_data' = BufferAfterStart
    /\ progress_callback' = IF model = "coop" THEN cb ELSE progress_callback
    /\ nworkers' = nworkers + 1
    /\ wpc' = [wpc EXCEPT ![nworkers + 1] = "new"]
    /\ recording_thread' = IF model = "thread" THEN nworkers + 1 ELSE recording_thread
    /\ async_task' = IF model = "coop" THEN nworkers + 1 ELSE async_task
    /\ start_ret' = [start_ret EXCEPT ![t] = TRUE]
    /\ appended' = <<>>
    /\ capped' = FALSE
    /\ failed' = "no"
    /\ late' = 0
    /\ progress' = <<>>
    /\ UNCHANGED <<wchunk, reads, start_time>>

\* threading.Thread(...).start() raises: the except branch.
StartFailed(t) ==
    /\ model = "thread"
    /\ is_recording' = FALSE
    /\ stop_event' = FALSE
    /\ audio_data' = <<>>
    /\ start_ret' = [start_ret EXCEPT ![t] = FALSE]
    /\ appended' = <<>>
    /\ capped' = FALSE
    /\ failed' = "no"
    /\ late' = 0
    /\ progress' = <<>>
    /\ UNCHANGED <<recording_thread, async_task, progress_callback, nworkers, wpc,
                   wchunk, reads, start_time>>

\* asyncio.create_task puts the new task at the tail of the ready queue.
StartRecording(t, cb) ==
    /\ CallerCanRun
    /\ IF AlreadyRecording
       THEN StartRejected(t)
       ELSE StartAccepted(t, cb) \/ StartFailed(t)
    /\ started_at' = IF start_ret'[t] THEN now ELSE started_at
    /\ ready' = IF start_ret'[t] /\ model = "coop" THEN Append(ready, nworkers') ELSE ready
    /\ UNCHANGED <<config, parts, now, deadline, stopped_at, waiting, stop_ret, data, files>>

\* -------------------------------------------------------- stop_recording
\* Mutant: stop_recording without its "no recording in progress" test.
NotRecording_Unchecked == FALSE

NotRecording == ~is_recording

\* if not self._is_recording: return None
StopCheck(t) ==
    /\ CallerCanRun
    /\ IF NotRecording
       THEN /\ pc' = [pc EXCEPT ![t] = "stop_none_inactive"]
            /\ stop_ret' = [stop_ret EXCEPT ![t] = 0]
       ELSE /\ pc' = [pc EXCEPT ![t] = "stop_signal"]
            /\ UNCHANGED stop_ret
    /\ stopped_at' = now
    /\ UNCHANGED <<config, parts, now, deadline, started_at, loop, engine, workers, start_ret,
                   data, files>>

\* Mutant: stop_recording leaves the active flag alone.
FlagAfterStop_Kept == is_recording

\* self._is_recording = False in stop_recording
FlagAfterStop == FALSE

\* self._stop_event.set(); self._is_recording = False
StopSignal(t) ==
    /\ pc[t] = "stop_signal"
    /\ CallerCanRun
    /\ stop_event' = TRUE
    /\ is_recording' = FlagAfterStop
    /\ pc' = [pc EXCEPT ![t] = "stop_join"]
    /\ UNCHANGED <<config, parts, clock, loop, audio_data, recording_thread, async_task,
                   progress_callback, workers, start_ret, stop_ret, data, files, system>>

\* The wait is over: at once when the worker had finished, else when the
\* loop resumes the caller.
StopJoin(t) ==
    /\ pc[t] = "stop_join"
    /\ JoinDone(Joined)
    /\ Resume(ClientTask)
    /\ pc' = [pc EXCEPT ![t] = "stop_concat"]
    /\ UNCHANGED <<config, parts, clock, engine, workers, start_ret, stop_ret, data, files, system>>

\* if self._audio_data: concatenate, flatten ... else: return None
StopConcat(t) ==
    /\ pc[t] = "stop_concat"
    /\ CallerCanRun
    /\ IF audio_data # <<>>
       THEN /\ data' = [data EXCEPT ![t] = Concatenate(audio_data, channels)]
            /\ pc' = [pc EXCEPT ![t] = "stop_save"]
            /\ UNCHANGED stop_ret
       ELSE /\ pc' = [pc EXCEPT ![t] = "stop_none_empty"]
            /\ stop_ret' = [stop_ret EXCEPT ![t] = 0]
            /\ UNCHANGED data
    /\ UNCHANGED <<config, parts, clock, loop, engine, workers, start_ret, files, system>>

\* _save_audio_data: create_temp_file, write_audio_data.  In the cooperative
\* model it runs in the executor while the caller is suspended.
SaveAudioData(t) ==
    /\ pc[t] = "stop_save"
    /\ \E outcome \in {"written", "write_failed", "create_failed"} :
        /\ files' = IF outcome = "create_failed" THEN files
                    ELSE Append(files, [chunks |-> IF outcome = "written"
                                                   THEN data[t].chunks ELSE <<>>,
                                        frames |-> IF outcome = "written"
                                                   THEN data[t].frames ELSE 0,
                                        ndim |-> IF outcome = "written"
                                                 THEN data[t].ndim ELSE 0,
                                        exists |-> TRUE])
        /\ stop_ret' = [stop_ret EXCEPT ![t] =
                           IF outcome = "written" THEN Len(files) + 1 ELSE 0]
    /\ pc' = [pc EXCEPT ![t] = "stop_saved"]
    /\ ready' = IF model = "coop" THEN Append(ready, ClientTask) ELSE ready
    /\ UNCHANGED <<config, parts, clock, waiting, engine, workers, start_ret, data, system>>

StopReturned == {"stop_none_inactive", "stop_none_empty", "stop_saved"}

\* ------------------------------------------- _record_continuously(_async)
\* start_time = loop.time(); with sd.InputStream(...) as stream
RecordOpen(w) ==
    /\ wpc[w] = "new"
    /\ Resume(w)
    /\ start_time' = [start_time EXCEPT ![w] = now]
    /\ \E opened \in BOOLEAN :
        /\ wpc' = [wpc EXCEPT ![w] = IF opened THEN "check" ELSE "except"]
        /\ failed' = IF opened THEN failed ELSE "open"
    /\ UNCHANGED <<config, parts, clock, engine, nworkers, wchunk, reads, appended, capped,
                   late, progress, callers, files, system>>

\* Mutant: the loop never looks at the stop event.
StopRequested_Never == FALSE

\* self._stop_event.is_set()
StopRequested == stop_event

\* while not self._stop_event.is_set(); leaving the loop closes the stream
RecordCheck(w) ==
    /\ wpc[w] = "check"
    /\ StopRequested \/ reads[w] < ReadLimit
    /\ IF StopRequested
       THEN /\ wpc' = [wpc EXCEPT ![w] = "done"]
            /\ reads' = [reads EXCEPT ![w] = 0]
            /\ wchunk' = [wchunk EXCEPT ![w] = NoChunk]
            /\ start_time' = [start_time EXCEPT ![w] = 0]
            /\ ready' = WakeJoiner(w)
       ELSE /\ wpc' = [wpc EXCEPT ![w] = "read"]
            /\ UNCHANGED <<reads, wchunk, start_time, ready>>
    /\ UNCHANGED <<config, parts, clock, waiting, engine, nworkers, appended, capped, failed, late,
                   progress, callers, files, system>>

\* audio_chunk, overflowed = stream.read(chunk_frames)
RecordRead(w) ==
    /\ wpc[w] = "read"
    /\ ReadDue(w)
    /\ \E raised \in BOOLEAN, overflowed \in BOOLEAN :
        IF raised
        THEN /\ wpc' = [wpc EXCEPT ![w] = "except"]
             /\ failed' = "read"
             /\ UNCHANGED <<wchunk, reads>>
        ELSE /\ wpc' = [wpc EXCEPT ![w] = "cap"]
             /\ wchunk' = [wchunk EXCEPT ![w] = <<w, reads[w] + 1>>]
             /\ reads' = [reads EXCEPT ![w] = @ + 1]
             /\ UNCHANGED failed
    /\ UNCHANGED <<config, parts, clock, loop, engine, nworkers, appended, capped, late,
                   progress, start_time, callers, files, system>>

\* total_duration = len(self._audio_data) * chunk_duration; the cap test and
\* its break
RecordCap(w) ==
    /\ wpc[w] = "cap"
    /\ IF CapReached(Len(audio_data), max_duration)
       THEN /\ wpc' = [wpc EXCEPT ![w] = "done"]
            /\ reads' = [reads EXCEPT ![w] = 0]
            /\ wchunk' = [wchunk EXCEPT ![w] = NoChunk]
            /\ start_time' = [start_time EXCEPT ![w] = 0]
            /\ capped' = TRUE
            /\ ready' = WakeJoiner(w)
       ELSE /\ wpc' = [wpc EXCEPT ![w] = "append"]
            /\ UNCHANGED <<reads, wchunk, start_time, capped, ready>>
    /\ UNCHANGED <<config, parts, clock, waiting, engine, nworkers, appended, failed, late, progress,
                   callers, files, system>>

\* Mutant: the cooperative task goes round its loop without an await.
AfterAppend_NoYield(m) == "check"

\* where the worker is after the append: at await asyncio.sleep(0), or back
\* at the loop test
AfterAppend(m) == IF m = "coop" THEN "yield" ELSE "check"

\* self._audio_data.append(audio_chunk); the cooperative task then reports
\* progress and reaches await asyncio.sleep(0)
\* Mutant: the new chunk is put in front of the buffer.
AppendChunk_InFront(buf, chunk) == <<chunk>> \o buf

\* self._audio_data.append(audio_chunk)
AppendChunk(buf, chunk) == Append(buf, chunk)

RecordAppend(w) ==
    /\ wpc[w] = "append"
    /\ audio_data' = AppendChunk(audio_data,
                                 [id |-> wchunk[w], frames |-> ChunkFrames(sample_rate)])
    /\ appended' = Append(appended, wchunk[w])
    /\ late' = IF stop_event THEN late + 1 ELSE late
    /\ progress' = IF model = "coop" /\ progress_callback # 0
                   THEN <<Progress(now - start_time[w], max_duration)>>
                   ELSE progress
    /\ wpc' = [wpc EXCEPT ![w] = AfterAppend(model)]
    /\ IF AfterAppend(model) = "yield"
       THEN /\ ready' = Append(ready, w)
            /\ waiting' = [waiting EXCEPT ![w] = Elements(ready)]
       ELSE UNCHANGED loop
    /\ UNCHANGED <<config, parts, clock, is_recording, stop_event, recording_thread,
                   async_task, progress_callback, nworkers, wchunk, reads, capped,
                   failed, start_time, callers, files, system>>

\* the task is resumed after await asyncio.sleep(0)
RecordResume(w) ==
    /\ wpc[w] = "yield"
    /\ Resume(w)
    /\ wpc' = [wpc EXCEPT ![w] = "check"]
    /\ UNCHANGED <<config, parts, clock, engine, nworkers, wchunk, reads, appended, capped,
                   failed, late, progress, start_time, callers, files, system>>

\* Mutant: the except branch leaves the active flag alone.
FlagAfterExcept_Kept == is_recording

\* self._is_recording = False in the except branch
FlagAfterExcept == FALSE

\* except Exception: self._is_recording = False
RecordExcept(w) ==
    /\ wpc[w] = "except"
    /\ is_recording' = FlagAfterExcept
    /\ wpc' = [wpc EXCEPT ![w] = "done"]
    /\ reads' = [reads EXCEPT ![w] = 0]
    /\ wchunk' = [wchunk EXCEPT ![w] = NoChunk]
    /\ start_time' = [start_time EXCEPT ![w] = 0]
    /\ ready' = WakeJoiner(w)
    /\ UNCHANGED <<config, parts, clock, waiting, stop_event, audio_data, recording_thread,
                   async_task, progress_callback, nworkers, appended, capped, failed, late,
                   progress, callers, files, system>>

\* _record_continuously on its own thread
ThreadWorker(w) ==
    \/ RecordOpen(w)
    \/ RecordCheck(w)
    \/ RecordRead(w)
    \/ RecordCap(w)
    \/ RecordAppend(w)
    \/ RecordExcept(w)

\* either model: _record_continuously_async also resumes after its await
Worker(w) == ThreadWorker(w) \/ RecordResume(w)

\* ------------------------------------------------- a client of the engine
\* One caller issuing start_recording / stop_recording one after the other.
ClientStart ==
    /\ pc["client"] = "idle"
    /\ \E cb \in Callbacks : StartRecording("client", cb)
    /\ UNCHANGED <<pc, system>>

ClientStop ==
    /\ pc["client"] = "idle"
    /\ StopCheck("client")
    /\ UNCHANGED system

ClientStopReturn ==
    /\ pc["client"] \in StopReturned
    /\ Resume(ClientTask)
    /\ pc' = [pc EXCEPT !["client"] = "idle"]
    /\ started_at' = 0
    /\ stopped_at' = 0
    /\ UNCHANGED <<config, parts, now, deadline, engine, workers, start_ret, stop_ret, data,
                   files, system>>

\* The caller waits between two calls: await asyncio.sleep(dt), or
\* time.sleep(dt) next to the thread model.
ClientSleep ==
    /\ model = "coop" \/ Timed
    /\ pc["client"] = "idle"
    /\ CallerCanRun
    /\ \E dt \in Waits : deadline' = IF Timed THEN now + dt ELSE deadline
    /\ pc' = [pc EXCEPT !["client"] = "sleep"]
    /\ UNCHANGED <<config, parts, now, started_at, stopped_at, loop, engine, workers,
                   start_ret, stop_ret, data, files, system>>

SleepOver == Timed => now >= deadline

\* The loop finds the sleep's timer due and makes the sleeping task ready.
ClientTimer ==
    /\ model = "coop"
    /\ pc["client"] = "sleep"
    /\ ~Queued(ClientTask)
    /\ LoopFree
    /\ SleepOver
    /\ ready' = Append(ready, ClientTask)
    /\ UNCHANGED <<config, parts, clock, waiting, engine, workers, callers, files, system>>

ClientWake ==
    /\ pc["client"] = "sleep"
    /\ IF model = "coop" THEN Queued(ClientTask) ELSE SleepOver
    /\ Resume(ClientTask)
    /\ pc' = [pc EXCEPT !["client"] = "idle"]
    /\ deadline' = 0
    /\ UNCHANGED <<config, parts, now, started_at, stopped_at, engine, workers, start_ret,
                   stop_ret, data, files, system>>

Client ==
    \/ ClientStart
    \/ ClientStop
    \/ StopSignal("client")
    \/ StopJoin("client")
    \/ StopConcat("client")
    \/ SaveAudioData("client")
    \/ ClientStopReturn
    \/ ClientSleep
    \/ ClientTimer
    \/ ClientWake

\* ------------------------------------------------------------- the clock
\* Nothing can run at this instant.  Thread model: the caller sleeps or
\* waits for the worker, and every worker is inside a read.  Cooperative
\* model: the capture task holds the loop inside a read, or the loop has
\* nothing ready and waits for the sleep's timer.
ReadPending(w) == wpc[w] = "read" /\ now < Due(w)

Quiescent ==
    IF model = "thread"
    THEN /\ \/ pc["client"] = "sleep" /\ now < deadline
            \/ pc["client"] = "stop_join" /\ ~JoinDone(Joined)
         /\ \A w \in Workers : Alive(w) => ReadPending(w)
    ELSE \/ \E w \in Workers : ReadPending(w)
         \/ /\ LoopFree
            /\ ready = <<>>
            /\ pc["client"] = "sleep"
            /\ now < deadline

\* Time passes, one chunk period at a time: only reads and sleeps take time.
Tick ==
    /\ Timed
    /\ now < MaxTicks * ChunkMs
    /\ Quiescent
    /\ now' = now + ChunkMs
    /\ UNCHANGED <<config, parts, deadline, started_at, stopped_at, loop, engine, workers,
                   callers, files, system>>

\* ------------------------------------------------- transcription_handler
RECURSIVE LStrip(_)
LStrip(s) == IF s # <<>> /\ Head(s) = " " THEN LStrip(Tail(s)) ELSE s

RECURSIVE RStrip(_)
RStrip(s) == IF s # <<>> /\ s[Len(s)] = " " THEN RStrip(SubSeq(s, 1, Len(s) - 1)) ELSE s

\* str.strip()
Strip(s) == RStrip(LStrip(s))

\* a path whose file has been removed
Removed == [chunks |-> <<>>, frames |-> 0, ndim |-> 0, exists |-> FALSE]

FileExists(p) == p \in 1..Len(files) /\ files[p].exists

\* transcribe_audio: the text returned (<<>> = None)
TranscribeResult(p, raw, raised) ==
    IF ~whisper_model THEN <<>>
    ELSE IF ~FileExists(p) THEN <<>>
    ELSE IF raised THEN <<>>
    ELSE Strip(raw)

\* transcribe_audio: the files left behind (finally: os.remove)
TranscribeFiles(p) ==
    IF whisper_model /\ FileExists(p)
    THEN [files EXCEPT ![p] = Removed]
    ELSE files

\* --------------------------------------------------- keyboard_controller
\* Mutant: only the empty text is rejected.
TypeRejected_EmptyOnly(text) == text = <<>>

\* type_text: rejected when empty or whitespace only
TypeRejected(text) == text = <<>> \/ Strip(text) = <<>>

\* type_text: what reaches Controller.type
TypeKeys(text, outcome) ==
    IF TypeRejected(text) \/ outcome = "raise_first" THEN <<>>
    ELSE IF outcome = "raise_second" THEN <<Strip(text)>>
    ELSE <<Strip(text), <<" ">>>>

TypeResult(text, outcome) == ~TypeRejected(text) /\ outcome = "typed"

Call(op, path, text, ok) == [op |-> op, path |-> path, text |-> text, ok |-> ok]

\* ---------------------------------------------------------- file_manager
\* A file as create_temp_file leaves it: it exists and is empty.
EmptyFile == [chunks |-> <<>>, frames |-> 0, ndim |-> 0, exists |-> TRUE]

\* cleanup_temp_files: count += 1 for each item found in temp_dir and removed
RECURSIVE CleanupCount(_)
CleanupCount(fs) ==
    IF fs = <<>> THEN 0
    ELSE (IF Head(fs).exists THEN 1 ELSE 0) + CleanupCount(Tail(fs))

\* Mutant: the first item of the directory is left alone.
CleanupTempFiles_KeepFirst(fs) == [p \in 1..Len(fs) |-> IF p = 1 THEN fs[p] ELSE Removed]

\* cleanup_temp_files: every item found in temp_dir is removed
CleanupTempFiles(fs) == [p \in 1..Len(fs) |-> Removed]

\* ------------------------------------------- collaborators called directly
\* One caller using TranscriptionHandler, KeyboardController and
\* TempFileManager without VoiceInputSystem around them.
Called(op, path, text, ok, count) ==
    [op |-> op, path |-> path, text |-> text, ok |-> ok, count |-> count]

\* load_model(): self.model is assigned only when whisper.load_model returns
LoadModel ==
    /\ ncalls < MaxCalls
    /\ ncalls' = ncalls + 1
    /\ \E loaded \in BOOLEAN :
        /\ whisper_model' = (whisper_model \/ loaded)
        /\ last' = Called("load_model", 0, <<>>, loaded, 0)
    /\ UNCHANGED <<config, exit_code, pressed_keys, invoked, nkeys, clock, loop, engine,
                   workers, callers, files, state, running, listening, audio_file,
                   transcribed_text, cycle, typed, hotkeys, ignored>>

\* create_temp_file()
CreateTempFile ==
    /\ ncalls < MaxCalls
    /\ ncalls' = ncalls + 1
    /\ files' = Append(files, EmptyFile)
    /\ last' = Called("create_temp_file", Len(files) + 1, <<>>, TRUE, 0)
    /\ UNCHANGED <<config, exit_code, pressed_keys, invoked, nkeys, clock, loop, engine,
                   workers, callers, system>>

\* cleanup_file(file_path)
CleanupFile(p) ==
    /\ p <= Len(files)
    /\ ncalls < MaxCalls
    /\ ncalls' = ncalls + 1
    /\ files' = IF FileExists(p) THEN [files EXCEPT ![p] = Removed] ELSE files
    /\ last' = Called("cleanup_file", p, <<>>, FileExists(p), 0)
    /\ UNCHANGED <<config, exit_code, pressed_keys, invoked, nkeys, clock, loop, engine,
                   workers, callers, system>>

\* cleanup_temp_files()
CleanupTempFilesCall ==
    /\ ncalls < MaxCalls
    /\ ncalls' = ncalls + 1
    /\ files' = CleanupTempFiles(files)
    /\ last' = Called("cleanup_temp_files", 0, <<>>, TRUE, CleanupCount(files))
    /\ UNCHANGED <<config, exit_code, pressed_keys, invoked, nkeys, clock, loop, engine,
                   workers, callers, system>>

\* transcribe_audio(audio_file_path)
TranscribeAudio(p) ==
    /\ p <= Len(files)
    /\ ncalls < MaxCalls
    /\ ncalls' = ncalls + 1
    /\ \E raw \in RawTexts, raised \in BOOLEAN :
        LET text == TranscribeResult(p, raw, raised) IN
        last' = Called("transcribe_audio", p, text, text # <<>>, 0)
    /\ files' = TranscribeFiles(p)
    /\ UNCHANGED <<config, exit_code, pressed_keys, invoked, nkeys, clock, loop, engine,
                   workers, callers, system>>

\* type_text(text)
TypeText(text) ==
    /\ ncalls < MaxCalls
    /\ ncalls' = ncalls + 1
    /\ \E outcome \in {"typed", "raise_first", "raise_second"} :
        /\ typed' = typed \o TypeKeys(text, outcome)
        /\ last' = Called("type_text", 0, text, TypeResult(text, outcome), 0)
    /\ UNCHANGED <<config, exit_code, pressed_keys, invoked, nkeys, clock, loop, engine,
                   workers, callers, files, state, running, listening, whisper_model,
                   audio_file, transcribed_text, cycle, hotkeys, ignored>>

\* ------------------------------------------------------ VoiceInputSystem
\* class SystemState(Enum)
SystemStates == {"idle", "recording", "processing"}

\* Mutant: any state other than Idle is handled as Recording.
HotkeyBranch_NoIgnore(s) == IF s = "idle" THEN "start" ELSE "process"

\* _on_hotkey_pressed: the branch taken in state s
HotkeyBranch(s) ==
    IF s = "idle" THEN "start"
    ELSE IF s = "recording" THEN "process"
    ELSE "ignore"

\* The listener invokes the registered callback on thread h.
OnHotkeyPressed(h) ==
    /\ listening
    /\ pc[h] = "idle"
    /\ h = "listener" \/ state = "processing"
    /\ hotkeys < MaxHotkeys
    /\ hotkeys' = hotkeys + 1
    /\ ignored' = IF HotkeyBranch(state) = "ignore" THEN ignored + 1 ELSE ignored
    /\ cycle' = [cycle EXCEPT ![h] = <<>>]
    /\ pc' = [pc EXCEPT ![h] =
                 CASE HotkeyBranch(state) = "start" -> "hk_start"
                   [] HotkeyBranch(state) = "process" -> "hk_process"
                   [] OTHER -> "idle"]
    /\ UNCHANGED <<config, parts, clock, loop, engine, workers, start_ret, stop_ret, data, files,
                   state, running, listening, whisper_model, audio_file,
                   transcribed_text, typed>>

\* _start_recording: if self.audio_recorder.start_recording()
SysStartRecording(h) ==
    /\ pc[h] = "hk_start"
    /\ StartRecording(h, 0)
    /\ pc' = [pc EXCEPT ![h] = "hk_started"]
    /\ cycle' = [cycle EXCEPT ![h] = Append(@, Call("start", 0, <<>>, start_ret'[h]))]
    /\ UNCHANGED <<state, running, listening, whisper_model, audio_file,
                   transcribed_text, typed, hotkeys, ignored>>

\* Mutant: the result of start_recording is not looked at.
StateAfterStart_Always(s, ok) == "recording"

\* _start_recording: self.state = SystemState.RECORDING, or the error branch
StateAfterStart(s, ok) == IF ok THEN "recording" ELSE s

SysStartResult(h) ==
    /\ pc[h] = "hk_started"
    /\ state' = StateAfterStart(state, start_ret[h])
    /\ start_ret' = [start_ret EXCEPT ![h] = FALSE]
    /\ pc' = [pc EXCEPT ![h] = "idle"]
    /\ UNCHANGED <<config, parts, clock, loop, engine, workers, stop_ret, data, files,
                   running, listening, whisper_model, audio_file,
                   transcribed_text, cycle, typed, hotkeys, ignored>>

\* Mutant: the cycle starts by going back to Idle.
StateOnProcess_Idle == "idle"

\* _stop_recording_and_process: self.state = SystemState.PROCESSING
StateOnProcess == "processing"

SysProcessBegin(h) ==
    /\ pc[h] = "hk_process"
    /\ state' = StateOnProcess
    /\ pc' = [pc EXCEPT ![h] = "hk_stop"]
    /\ UNCHANGED <<config, parts, clock, loop, engine, workers, start_ret, stop_ret, data, files,
                   running, listening, whisper_model, audio_file,
                   transcribed_text, cycle, typed, hotkeys, ignored>>

\* audio_file = self.audio_recorder.stop_recording(): the call
SysStop(h) ==
    /\ pc[h] = "hk_stop"
    /\ StopCheck(h)
    /\ UNCHANGED system

\* Mutant: the early return forgets to go back to Idle.
StateAfterStop_Stranded(s, path) == s

\* the state left by the "if not audio_file" branch
StateAfterStop(s, path) == IF path = 0 THEN "idle" ELSE s

\* Mutant: no early return when stop_recording gave no file.
NextAfterStop_NoReturn(path) == "hk_transcribe"

\* where the callback goes on: return, or on to the transcription
NextAfterStop(path) == IF path = 0 THEN "idle" ELSE "hk_transcribe"

\* audio_file = ...: the return; if not audio_file: state = IDLE; return
SysStopResult(h) ==
    /\ pc[h] \in StopReturned
    /\ audio_file' = [audio_file EXCEPT ![h] = stop_ret[h]]
    /\ stop_ret' = [stop_ret EXCEPT ![h] = 0]
    /\ data' = [data EXCEPT ![h] = NoData]
    /\ cycle' = [cycle EXCEPT ![h] = Append(@, Call("stop", stop_ret[h], <<>>, stop_ret[h] # 0))]
    /\ state' = StateAfterStop(state, stop_ret[h])
    /\ pc' = [pc EXCEPT ![h] = NextAfterStop(stop_ret[h])]
    /\ UNCHANGED <<config, parts, clock, loop, engine, workers, start_ret, files, running, listening,
                   whisper_model, transcribed_text, typed, hotkeys, ignored>>

\* transcribed_text = self.transcription_handler.transcribe_audio(audio_file)
SysTranscribe(h) ==
    /\ pc[h] = "hk_transcribe"
    /\ \E raw \in RawTexts, raised \in BOOLEAN :
        LET text == TranscribeResult(audio_file[h], raw, raised) IN
        /\ transcribed_text' = [transcribed_text EXCEPT ![h] = text]
        /\ cycle' = [cycle EXCEPT ![h] =
                        Append(@, Call("transcribe", audio_file[h], text, text # <<>>))]
        /\ pc' = [pc EXCEPT ![h] = IF text # <<>> THEN "hk_type" ELSE "hk_finish"]
    /\ files' = TranscribeFiles(audio_file[h])
    /\ UNCHANGED <<config, parts, clock, loop, engine, workers, start_ret, stop_ret, data,
                   state, running, listening, whisper_model, audio_file, typed, hotkeys, ignored>>

\* self.keyboard_controller.type_text(transcribed_text)
SysType(h) ==
    /\ pc[h] = "hk_type"
    /\ \E outcome \in {"typed", "raise_first", "raise_second"} :
        /\ typed' = typed \o TypeKeys(transcribed_text[h], outcome)
        /\ cycle' = [cycle EXCEPT ![h] =
                        Append(@, Call("inject", 0, transcribed_text[h],
                                       TypeResult(transcribed_text[h], outcome)))]
    /\ pc' = [pc EXCEPT ![h] = "hk_finish"]
    /\ UNCHANGED <<config, parts, clock, loop, engine, workers, start_ret, stop_ret, data, files,
                   state, running, listening, whisper_model, audio_file,
                   transcribed_text, hotkeys, ignored>>

\* Mutant: the cycle ends without going back to Idle.
StateAfterProcess_Stuck == "processing"

\* self.state = SystemState.IDLE at the end of _stop_recording_and_process
StateAfterProcess == "idle"

SysFinish(h) ==
    /\ pc[h] = "hk_finish"
    /\ state' = StateAfterProcess
    /\ audio_file' = [audio_file EXCEPT ![h] = 0]
    /\ transcribed_text' = [transcribed_text EXCEPT ![h] = <<>>]
    /\ pc' = [pc EXCEPT ![h] = "idle"]
    /\ UNCHANGED <<config, parts, clock, loop, engine, workers, start_ret, stop_ret, data, files,
                   running, listening, whisper_model, cycle, typed, hotkeys, ignored>>

Listener(h) ==
    \/ OnHotkeyPressed(h)
    \/ SysStartRecording(h)
    \/ SysStartResult(h)
    \/ SysProcessBegin(h)
    \/ SysStop(h)
    \/ StopSignal(h)
    \/ StopJoin(h)
    \/ StopConcat(h)
    \/ SaveAudioData(h)
    \/ SysStopResult(h)
    \/ SysTranscribe(h)
    \/ SysType(h)
    \/ SysFinish(h)

\* ------------------------------------------ main thread: run and shutdown
\* Mutant: the process exits with 0 whatever run() returned.
ExitCode_AlwaysZero(success) == 0

\* main: sys.exit(0 if success else 1)
ExitCode(success) == IF success THEN 0 ELSE 1

\* initialize(): load_model and start_listening; when it fails run() returns
\* False and main exits
Initialize ==
    /\ pc["main"] = "init"
    /\ \E loaded \in BOOLEAN, started \in BOOLEAN :
        /\ whisper_model' = loaded
        /\ listening' = (loaded /\ started)
        /\ pc' = [pc EXCEPT !["main"] = IF loaded /\ started THEN "loop" ELSE "failed"]
        /\ exit_code' = IF loaded /\ started THEN exit_code ELSE <<ExitCode(FALSE)>>
    /\ UNCHANGED <<config, pressed_keys, invoked, nkeys, last, ncalls, clock, loop, engine, workers, start_ret, stop_ret, data, files,
                   state, running, audio_file, transcribed_text, cycle, typed, hotkeys, ignored>>

\* _signal_handler: self.running = False
SignalHandler ==
    /\ pc["main"] \in {"init", "loop"}
    /\ running
    /\ running' = FALSE
    /\ UNCHANGED <<config, parts, clock, loop, engine, workers, callers, files,
                   state, listening, whisper_model, audio_file, transcribed_text,
                   cycle, typed, hotkeys, ignored>>

\* while self.running ends; finally: self.shutdown()
MainLoopExit ==
    /\ pc["main"] = "loop"
    /\ ~running
    /\ pc' = [pc EXCEPT !["main"] = "sd_listener"]
    /\ UNCHANGED <<config, parts, clock, loop, engine, workers, start_ret, stop_ret, data, files, system>>

\* shutdown: self.hotkey_listener.stop_listening()
ShutdownStopListening ==
    /\ pc["main"] = "sd_listener"
    /\ listening' = FALSE
    /\ pc' = [pc EXCEPT !["main"] = "sd_check"]
    /\ UNCHANGED <<config, parts, clock, loop, engine, workers, start_ret, stop_ret, data, files,
                   state, running, whisper_model, audio_file, transcribed_text,
                   cycle, typed, hotkeys, ignored>>

\* shutdown: if self.state == SystemState.RECORDING
ShutdownCheck ==
    /\ pc["main"] = "sd_check"
    /\ pc' = [pc EXCEPT !["main"] = IF state = "recording" THEN "sd_stop" ELSE "sd_cleanup"]
    /\ UNCHANGED <<config, parts, clock, loop, engine, workers, start_ret, stop_ret, data, files, system>>

\* shutdown: self.audio_recorder.stop_recording()
ShutdownStop ==
    /\ pc["main"] = "sd_stop"
    /\ StopCheck("main")
    /\ UNCHANGED system

ShutdownStopReturn ==
    /\ pc["main"] \in StopReturned
    /\ stop_ret' = [stop_ret EXCEPT !["main"] = 0]
    /\ data' = [data EXCEPT !["main"] = NoData]
    /\ pc' = [pc EXCEPT !["main"] = "sd_cleanup"]
    /\ UNCHANGED <<config, parts, clock, loop, engine, workers, start_ret, files, system>>

\* shutdown: self.file_manager.cleanup_temp_files(); run() returns True and
\* main exits
ShutdownCleanup ==
    /\ pc["main"] = "sd_cleanup"
    /\ files' = CleanupTempFiles(files)
    /\ pc' = [pc EXCEPT !["main"] = "done"]
    /\ exit_code' = <<ExitCode(TRUE)>>
    /\ UNCHANGED <<config, pressed_keys, invoked, nkeys, last, ncalls, clock, loop, engine, workers, start_ret, stop_ret, data, system>>

Main ==
    \/ Initialize
    \/ SignalHandler
    \/ MainLoopExit
    \/ ShutdownStopListening
    \/ ShutdownCheck
    \/ ShutdownStop
    \/ StopSignal("main")
    \/ StopJoin("main")
    \/ StopConcat("main")
    \/ SaveAudioData("main")
    \/ ShutdownStopReturn
    \/ ShutdownCleanup

\* -------------------------------------------------------- hotkey_listener
target_keys == {"ctrl_l", "shift_l", "space"}

alt_target_keys == {"ctrl_r", "shift_r", "space"}

\* _mixed_modifier_combination
MixedModifierCombination(keys) ==
    /\ "ctrl_l" \in keys \/ "ctrl_r" \in keys
    /\ "shift_l" \in keys \/ "shift_r" \in keys
    /\ "space" \in keys

\* _is_hotkey_pressed
IsHotkeyPressed(keys) ==
    \/ target_keys \subseteq keys
    \/ alt_target_keys \subseteq keys
    \/ MixedModifierCombination(keys)

\* _on_key_press(key): the listener delivers a press of k, a key going down or
\* the repeat of a key that is held.  An exception of the callback is caught.
OnKeyPress(k) ==
    /\ nkeys < MaxKeyEvents
    /\ nkeys' = nkeys + 1
    /\ pressed_keys' = pressed_keys \cup {k}
    /\ invoked' = IF IsHotkeyPressed(pressed_keys') THEN invoked + 1 ELSE invoked
    /\ UNCHANGED <<config, exit_code, last, ncalls, clock, loop, engine, workers,
                   callers, files, system>>

\* _on_key_release(key)
OnKeyRelease(k) ==
    /\ nkeys < MaxKeyEvents
    /\ k \in pressed_keys
    /\ nkeys' = nkeys + 1
    /\ pressed_keys' = pressed_keys \ {k}
    /\ UNCHANGED <<config, exit_code, invoked, last, ncalls, clock, loop, engine,
                   workers, callers, files, system>>

\* ---------------------------------------------------------- specifications
\* The engine on its own.
Next == Client \/ \E w \in Workers : Worker(w)

Spec == Init /\ [][Next]_vars

\* The engine with every thread and task scheduled fairly.
FairInit ==
    /\ driver = "client"
    /\ model \in {"thread", "coop"}
    /\ sample_rate = SysSampleRate
    /\ channels = SysChannels
    /\ max_duration \in FairMaxDurations
    /\ pc = [t \in Callers |-> "idle"]
    /\ EngineInit
    /\ SystemInit
    /\ PartsInit

FairSpec ==
    /\ FairInit
    /\ [][Next]_vars
    /\ WF_vars(Client)
    /\ \A w \in Workers : WF_vars(Worker(w))

\* The engine under a deterministic clock: each read takes one chunk period,
\* each sleep its duration, nothing else takes time.
ClockInit ==
    /\ driver = "clock"
    /\ model \in {"thread", "coop"}
    /\ sample_rate = SysSampleRate
    /\ channels = SysChannels
    /\ max_duration \in ClockMaxDurations
    /\ pc = [t \in Callers |-> "idle"]
    /\ EngineInit
    /\ SystemInit
    /\ PartsInit

ClockNext == Next \/ Tick

SpecClock == ClockInit /\ [][ClockNext]_vars

\* VoiceInputSystem as constructed by main(): callbacks are delivered one at
\* a time on the listener thread.
SysInit ==
    /\ driver = "system"
    /\ model = "thread"
    /\ sample_rate = SysSampleRate
    /\ channels = SysChannels
    /\ max_duration \in SysMaxDurations
    /\ pc = [t \in Callers |-> IF t = "main" THEN "init" ELSE "idle"]
    /\ EngineInit
    /\ SystemInit
    /\ PartsInit

SysNext == Listener("listener") \/ Main \/ \E w \in Workers : ThreadWorker(w)

SpecSystem == SysInit /\ [][SysNext]_vars

\* Every thread that can take a step eventually takes one.
FairSystem ==
    /\ SpecSystem
    /\ WF_vars(Listener("listener"))
    /\ WF_vars(Main)
    /\ \A w \in Workers : WF_vars(ThreadWorker(w))

\* The same system under a detector that may also invoke the callback, on a
\* second thread, while the cycle of an earlier invocation is in Processing.
ReentrantNext == SysNext \/ OnHotkeyPressed("listener2")

SpecReentrant == SysInit /\ [][ReentrantNext]_vars

\* HotkeyListener on its own, fed the key events of the keyboard.
KeysInit ==
    /\ driver = "keys"
    /\ model = "thread"
    /\ sample_rate = SysSampleRate
    /\ channels = SysChannels
    /\ max_duration = NoneDuration
    /\ pc = [t \in Callers |-> "idle"]
    /\ EngineInit
    /\ SystemInit
    /\ PartsInit

KeysNext == \E k \in Keys : OnKeyPress(k) \/ OnKeyRelease(k)

SpecHotkey == KeysInit /\ [][KeysNext]_vars

\* The collaborators on their own, called one after the other.
PartsHarnessInit ==
    /\ driver = "parts"
    /\ model = "thread"
    /\ sample_rate = SysSampleRate
    /\ channels = SysChannels
    /\ max_duration = NoneDuration
    /\ pc = [t \in Callers |-> "idle"]
    /\ EngineInit
    /\ SystemInit
    /\ PartsInit

PartsNext ==
    \/ LoadModel
    \/ CreateTempFile
    \/ \E p \in Paths : CleanupFile(p)
    \/ CleanupTempFilesCall
    \/ \E p \in Paths : TranscribeAudio(p)
    \/ \E text \in RawTexts : TypeText(text)

SpecParts == PartsHarnessInit /\ [][PartsNext]_vars

\* ------------------------------------------------------------------ claims
ChunkIds(buf) == [i \in 1..Len(buf) |-> buf[i].id]

\* C1: in both models stop_recording reads the buffer only after the capture
\* worker has terminated: while a caller concatenates, saves or holds the
\* result no worker is alive, the buffer is what it concatenated, and that is
\* every chunk the session's worker appended (a written file holds them all).
C1_StopReadsAfterWorker ==
    \A t \in Callers :
        /\ pc[t] \in {"stop_concat", "stop_save", "stop_saved"} =>
               \A w \in Workers : ~Alive(w)
        /\ pc[t] \in {"stop_save", "stop_saved"} =>
               /\ data[t].chunks = ChunkIds(audio_data)
               /\ data[t].chunks = appended
        /\ pc[t] = "stop_saved" /\ stop_ret[t] # 0 =>
               files[stop_ret[t]].chunks = appended

C1_Witness ==
    /\ model = "thread"
    /\ pc["client"] = "stop_saved"
    /\ stop_ret["client"] # 0
    /\ Len(files[stop_ret["client"]].chunks) >= 2
    /\ max_duration = NoneDuration

\* C2: at most one capture worker is alive at any time, and it is the worker
\* of the current session; a start while a session is active launches none.
C2_OneSessionOneWorker ==
    /\ Cardinality({w \in Workers : Alive(w)}) <= 1
    /\ \A w \in Workers : Alive(w) => w = Joined /\ w = nworkers

C2_Witness ==
    /\ is_recording
    /\ ~start_ret["client"]
    /\ nworkers = 1
    /\ Alive(1)

\* C3: start_recording on an engine with an active session returns False and
\* changes nothing: buffer, stop event, active flag, workers and the progress
\* callback are as before the call.
C3_StartWhileActiveChangesNothing ==
    [][\A t \in Callers, cb \in Callbacks :
          (is_recording /\ StartRecording(t, cb)) =>
              (~start_ret'[t] /\ UNCHANGED <<engine, workers>>)]_vars

C3_Witness ==
    /\ model = "coop"
    /\ is_recording
    /\ ~start_ret["client"]
    /\ progress_callback = 1
    /\ Len(audio_data) >= 1
    /\ pc["client"] = "idle"

\* C4: stop_recording on an engine with no active session returns None at
\* once and leaves the active flag, the buffer and the stop event unchanged;
\* no file is created.
C4_StopWhileInactiveChangesNothing ==
    [][\A t \in Callers :
          (~is_recording /\ StopCheck(t)) =>
              /\ pc'[t] = "stop_none_inactive"
              /\ stop_ret'[t] = 0
              /\ UNCHANGED <<engine, workers, files>>]_vars

C4_Witness ==
    /\ pc["client"] = "stop_none_inactive"
    /\ stop_ret["client"] = 0
    /\ nworkers = 1
    /\ Len(files) = 1
    /\ audio_data # <<>>

\* C9: with a cap D > 0 configured, the captured duration (chunks appended
\* times the 100 ms chunk period) never exceeds D plus one chunk period.
C9_CapturedWithinCapPlusChunk ==
    Truthy(max_duration) => Len(audio_data) * ChunkMs <= max_duration + ChunkMs

\* The worker has stopped by itself at the cap, past D but within one chunk.
C9_Witness ==
    /\ max_duration = 250
    /\ Len(audio_data) * ChunkMs > max_duration
    /\ is_recording
    /\ ~stop_event
    /\ nworkers = 1
    /\ wpc[1] = "done"

\* C10: with a cap D > 0 configured, a stop_recording after the cap has been
\* reached returns a buffer whose sample count corresponds to at most D
\* seconds (frames / sample_rate <= D).
C10_BufferWithinCap ==
    \A t \in Callers :
        (/\ pc[t] = "stop_saved"
         /\ stop_ret[t] # 0
         /\ capped) =>
            files[stop_ret[t]].frames * 1000 <= max_duration * sample_rate

\* C5: every hotkey cycle that enters Processing returns to Idle: no callback
\* returns leaving the state Processing, and under fair scheduling of the
\* threads Processing always leads to Idle, whatever stop_recording, the
\* transcription and the injection gave.
C5_ProcessingReturnsToIdle ==
    /\ [](pc["listener"] = "idle" => state # "processing")
    /\ (state = "processing") ~> (state = "idle")

\* A cycle whose injection failed is over and the state is Idle.
C5_Witness ==
    /\ pc["listener"] = "idle"
    /\ state = "idle"
    /\ Len(cycle["listener"]) = 3
    /\ cycle["listener"][3].op = "inject"
    /\ ~cycle["listener"][3].ok

\* C6: a hotkey callback invoked while the state is Processing is ignored:
\* the state stays Processing, the callback returns without calling
\* start_recording or stop_recording, and no capture session is created.
C6_HotkeyIgnoredWhileProcessing ==
    [][\A h \in Listeners :
          (state = "processing" /\ OnHotkeyPressed(h)) =>
              /\ state' = "processing"
              /\ pc'[h] = "idle"
              /\ cycle'[h] = <<>>
              /\ ignored' = ignored + 1
              /\ UNCHANGED <<engine, workers, start_ret, stop_ret, files>>]_vars

C6_Witness ==
    /\ ignored = 1
    /\ state = "processing"
    /\ pc["listener2"] = "idle"
    /\ pc["listener"] = "stop_join"

\* C7: within one cycle the collaborators are called in the order stop,
\* transcribe, inject, each at most once; transcribe only after a stop that
\* returned a path and with that path, inject only after a transcription that
\* returned text and with that text.
C7_CollaboratorOrder ==
    LET c == cycle["listener"] IN
    \A i \in 1..Len(c) :
        /\ c[i].op = "start" => i = 1 /\ Len(c) = 1
        /\ c[i].op = "stop" => i = 1
        /\ c[i].op = "transcribe" =>
               /\ i = 2
               /\ c[1].op = "stop" /\ c[1].path # 0
               /\ c[2].path = c[1].path
        /\ c[i].op = "inject" =>
               /\ i = 3
               /\ c[2].op = "transcribe" /\ c[2].text # <<>>
               /\ c[3].text = c[2].text

C7_Witness ==
    /\ Len(cycle["listener"]) = 3
    /\ cycle["listener"][1].path = 1
    /\ cycle["listener"][3].op = "inject"
    /\ cycle["listener"][3].ok
    /\ typed # <<>>

\* C8: the state machine starts in Idle; the callback of a hotkey in Idle
\* calls start_recording exactly once and leaves the state Recording if that
\* call returned True, Idle otherwise.
C8_IdleHotkeyStarts ==
    /\ state = "idle"
    /\ [][(pc["listener"] = "hk_started" /\ pc'["listener"] = "idle") =>
             /\ Len(cycle["listener"]) = 1
             /\ cycle["listener"][1].op = "start"
             /\ cycle["listener"][1].ok = start_ret["listener"]
             /\ state = "idle"
             /\ state' = IF start_ret["listener"] THEN "recording" ELSE "idle"]_vars

\* start_recording failed in Idle and the state stayed Idle.
C8_Witness ==
    /\ pc["listener"] = "idle"
    /\ Len(cycle["listener"]) = 1
    /\ cycle["listener"][1].op = "start"
    /\ ~cycle["listener"][1].ok
    /\ state = "idle"

\* A start_recording that was not turned away: it returned True with a new
\* worker on an empty buffer, or (thread model) the thread could not be
\* started.
StartedAnew(t) ==
    \/ /\ start_ret'[t]
       /\ is_recording'
       /\ audio_data' = <<>>
       /\ nworkers' = nworkers + 1
       /\ wpc'[nworkers'] = "new"
    \/ model = "thread" /\ StartFailed(t)

\* C11: when the device read raises on the first chunk of a session, the
\* worker goes through its handler and terminates (no exception leaves it),
\* the engine is inactive once it has, every later stop_recording returns
\* None without saving, and the next start_recording begins a new session
\* (it returns True; only a thread that cannot be started makes it False).
C11_FirstReadFailure ==
    /\ [](failed = "read" /\ appended = <<>> =>
            /\ wpc[Joined] \in {"except", "done"}
            /\ wpc[Joined] = "done" => ~is_recording
            /\ \A t \in Callers :
                /\ pc[t] \notin {"stop_save", "stop_saved"}
                /\ pc[t] \in StopReturned => stop_ret[t] = 0)
    /\ [][\A t \in Callers, cb \in Callbacks :
            (/\ failed = "read" /\ appended = <<>>
             /\ wpc[Joined] = "done"
             /\ StartRecording(t, cb)) => StartedAnew(t)]_vars

\* The stop_recording after the failed first read has returned None.
C11_Witness ==
    /\ failed = "read"
    /\ appended = <<>>
    /\ nworkers = 1
    /\ wpc[1] = "done"
    /\ pc["client"] = "stop_none_inactive"
    /\ stop_ret["client"] = 0

\* C12: in a session whose worker failed after it had accumulated chunks, a
\* stop_recording that returns (no earlier stop_recording having collected
\* the buffer) has concatenated exactly the accumulated chunks and handed
\* them to the save.
C12_StopReturnsAccumulated ==
    \A t \in Callers :
        (/\ failed # "no"
         /\ appended # <<>>
         /\ pc[t] \in StopReturned
         /\ ~(stop_event /\ pc[t] = "stop_none_inactive")) =>
            /\ pc[t] = "stop_saved"
            /\ data[t].chunks = appended

\* C13: stop_recording discards the session whatever its outcome: when a
\* stop_recording on an active session returns (file written, no chunk
\* captured, or the save failed) the engine is inactive with no worker alive;
\* from then until the next start every stop_recording returns None at once,
\* and the next start_recording begins a new session.
C13_StopDiscardsSession ==
    /\ [](/\ stop_event => ~is_recording
          /\ \A t \in Callers :
                pc[t] \in {"stop_none_empty", "stop_saved"} =>
                    /\ stop_event
                    /\ \A w \in Workers : ~Alive(w))
    /\ [][\A t \in Callers, cb \in Callbacks :
            /\ (stop_event /\ StopCheck(t)) =>
                   (pc'[t] = "stop_none_inactive" /\ stop_ret'[t] = 0)
            /\ (stop_event /\ StartRecording(t, cb)) => StartedAnew(t)]_vars

\* A second stop_recording has returned None after one whose save failed.
C13_Witness ==
    /\ stop_event
    /\ audio_data # <<>>
    /\ files = <<>>
    /\ pc["client"] = "stop_none_inactive"
    /\ stop_ret["client"] = 0

\* C14: once shutdown() has completed and no hotkey callback is in flight,
\* the engine has no active session and no capture worker is alive.
C14_ShutdownStopsSession ==
    (pc["main"] = "done" /\ pc["listener"] = "idle") =>
        /\ ~is_recording
        /\ \A w \in Workers : ~Alive(w)

\* C15: cancellation is checked at chunk boundaries only: after the stop
\* event is set the worker appends at most one more chunk (the read in
\* flight) and its next loop test ends it; with every thread and task
\* scheduled fairly and every read returning, the wait inside stop_recording
\* always ends.
C15_CancelAtChunkBoundary ==
    /\ [](late <= 1)
    /\ [][\A w \in Workers :
            (stop_event /\ RecordCheck(w)) => wpc'[w] = "done"]_vars
    /\ (pc["client"] = "stop_join") ~> (pc["client"] = "stop_concat")

\* The wait has ended and the read in flight had added one chunk.
C15_Witness ==
    /\ model = "thread"
    /\ late = 1
    /\ pc["client"] = "stop_concat"
    /\ Len(audio_data) >= 2

\* C16: a stop_recording that concatenates a buffer of N chunks of L frames
\* each hands N * L frames to the save (and a written file holds N * L
\* frames); it concatenates only when N > 0 and returns None when N = 0.
C16_ConcatenateLength ==
    \A t \in Callers :
        /\ pc[t] \in {"stop_save", "stop_saved"} =>
               /\ Len(appended) > 0
               /\ Len(data[t].chunks) = Len(appended)
               /\ data[t].frames = Len(appended) * ChunkFrames(sample_rate)
        /\ pc[t] = "stop_saved" /\ stop_ret[t] # 0 =>
               files[stop_ret[t]].frames = Len(appended) * ChunkFrames(sample_rate)
        /\ pc[t] = "stop_none_empty" => Len(appended) = 0 /\ stop_ret[t] = 0

\* Three stereo chunks of int(0.1 * 22055) = 2205 frames each were written.
C16_Witness ==
    /\ sample_rate = 22055
    /\ pc["client"] = "stop_saved"
    /\ stop_ret["client"] # 0
    /\ Len(appended) = 3
    /\ files[stop_ret["client"]].frames = 6615

\* The client's stop_recording on the thread model has waited for the worker
\* of a session that ran without a cap and without a failure.
StoppedAfter(wait) ==
    /\ model = "thread"
    /\ ~Truthy(max_duration)
    /\ failed = "no"
    /\ pc["client"] \in {"stop_concat", "stop_save", "stop_saved", "stop_none_empty"}
    /\ stopped_at - started_at = wait

\* C17 as stated: under the deterministic clock, start_recording, a wait of
\* 500 ms and stop_recording accumulate exactly 5 chunks.
C17_ExactlyFiveChunks ==
    StoppedAfter(500) => Len(audio_data) = 5

\* C17, amended: under the deterministic clock, start_recording, a wait of
\* W ms and stop_recording accumulate W / 100 chunks or one more (5 or 6
\* for 500 ms): the read begun at the instant of the stop still counts.
C17_FiveOrSixChunks ==
    /\ StoppedAfter(500) => Len(audio_data) \in {5, 6}
    /\ \A k \in 0..MaxTicks :
        StoppedAfter(k * ChunkMs) => Len(audio_data) \in {k, k + 1}

\* After a wait of 500 ms the buffer holds 6 chunks.
C17_Witness ==
    /\ StoppedAfter(500)
    /\ Len(audio_data) = 6

\* The cooperative task reports progress against a cap.
ProgressCapped == model = "coop" /\ Truthy(max_duration) /\ progress # <<>>

\* C18 as stated: with a cap configured, the values passed to the progress
\* callback in a session never decrease and the last one is 1.0 (within 0.05).
C18_LastProgressIsOne ==
    /\ [][(ProgressCapped /\ progress' # <<>>) => progress'[1] >= progress[1]]_vars
    /\ []((ProgressCapped /\ Joined # 0 /\ wpc[Joined] = "done" /\ failed = "no") =>
             (progress[1] >= 950 /\ progress[1] <= 1050))

\* C18, amended: with a cap configured, the values passed to the progress
\* callback in a session never decrease, and the last one is 1.0 (within
\* 0.05) when the session ran into the cap.
C18_ProgressEndsAtOneWhenCapped ==
    /\ [][(ProgressCapped /\ progress' # <<>>) => progress'[1] >= progress[1]]_vars
    /\ []((ProgressCapped /\ capped) =>
             (progress[1] >= 950 /\ progress[1] <= 1050))

\* A session with a callback has run into its cap of 0.25 s.
C18_Witness ==
    /\ ProgressCapped
    /\ capped
    /\ max_duration = 250
    /\ Len(appended) = 3
    /\ progress = <<1000>>

\* C19: every value passed to the progress callback lies in [0, 1].
C19_ProgressInUnitInterval ==
    progress # <<>> => (progress[1] >= 0 /\ progress[1] <= 1000)

\* C20: the cooperative capture task is suspended after every chunk it
\* appends, behind every task that is ready at that moment; when the loop
\* resumes it, each of those tasks has had its turn, so it never appends two
\* chunks without yielding.
C20_YieldAfterEveryChunk ==
    [][\A w \in Workers :
          /\ (model = "coop" /\ RecordAppend(w)) =>
                 /\ wpc'[w] = "yield"
                 /\ ready' = Append(ready, w)
          /\ (model = "coop" /\ wpc[w] = "yield" /\ wpc'[w] # "yield") =>
                 /\ waiting[w] = {}
                 /\ audio_data' = audio_data]_vars

\* The capture task has yielded with the client's task ready before it.
C20_Witness ==
    /\ model = "coop"
    /\ wpc[1] = "yield"
    /\ waiting[1] = {ClientTask}
    /\ ready = <<ClientTask, 1>>
    /\ Len(appended) >= 2

\* Ctrl, Shift and Space are held, each modifier on either side.
CombinationHeld(keys) ==
    /\ {"ctrl_l", "ctrl_r"} \cap keys # {}
    /\ {"shift_l", "shift_r"} \cap keys # {}
    /\ "space" \in keys

\* C21: the detector invokes the callback exactly once per press edge of the
\* combination: a key event that takes the held keys from not containing
\* Ctrl+Shift+Space to containing it invokes the callback once, and no other
\* key event (a repeat of a held key, one more key, a release) invokes it.
C21_OncePerPressEdge ==
    [][IF ~CombinationHeld(pressed_keys) /\ CombinationHeld(pressed_keys')
       THEN invoked' = invoked + 1
       ELSE invoked' = invoked]_vars

\* C22: every call of transcribe_audio on a persisted audio file has deleted
\* that file when it returns, whatever the outcome: after the call the path
\* it was given does not exist.
C22_TranscribeDeletesFile ==
    last.op = "transcribe_audio" => ~FileExists(last.path)

\* The text is empty or has only whitespace in it.
Blank(text) == \A i \in 1..Len(text) : text[i] = " "

\* C23: type_text with an empty or whitespace-only text returns False and
\* has no side effect: nothing is handed to the keyboard, and no other
\* collaborator's state changes.
C23_BlankTextRejected ==
    [][\A text \in RawTexts :
          (Blank(text) /\ TypeText(text)) =>
              /\ ~last'.ok
              /\ typed' = typed
              /\ UNCHANGED <<files, whisper_model>>]_vars

\* A whitespace-only text was rejected after an accepted one had been typed.
C23_Witness ==
    /\ last.op = "type_text"
    /\ last.text = <<" ">>
    /\ ~last.ok
    /\ typed = << <<"h", "i">>, <<" ">> >>

\* The files that exist.
Existing(fs) == {p \in 1..Len(fs) : fs[p].exists}

C24_ExitCodes ==
    /\ [](exit_code # <<>> => exit_code \in {<<0>>, <<1>>})
    /\ [](pc["main"] = "failed" => exit_code = <<1>>)
    /\ [](pc["main"] = "done" => exit_code = <<0>>)
    /\ [][exit_code' # exit_code =>
            /\ exit_code = <<>>
            /\ exit_code' = <<1>> =>
                   /\ pc["main"] = "init"
                   /\ ~(whisper_model' /\ listening')
                   /\ hotkeys = 0
            /\ exit_code' = <<0>> =>
                   /\ whisper_model
                   /\ ~running
                   /\ ~listening
                   /\ pc'["main"] = "done"]_vars
    /\ [][(pc["main"] = "init" /\ pc'["main"] # "init" /\ ~(whisper_model' /\ listening'))
            => exit_code' = <<1>>]_vars

\* A signal ended the main loop after a recording cycle; shutdown completed
\* and the process exited with code 0.
C24_Witness ==
    /\ exit_code = <<0>>
    /\ pc["main"] = "done"
    /\ ~running
    /\ typed # <<>>

\* The last collaborator call of the listener's latest cycle.
LastCall == cycle["listener"][Len(cycle["listener"])]

\* C26: whenever the state is Idle and no hotkey callback is in flight the
\* engine has no active session; a cycle in which the
\* start, the stop (device error, empty capture, failed save), the
\* transcription or the injection failed has left the state Idle when its
\* callback returns; and a hotkey in that situation takes the start branch,
\* where start_recording begins a new session and the state becomes
\* Recording (only a thread that cannot be started makes it fail).
C26_IdleAllowsRetry ==
    /\ []((state = "idle" /\ pc["listener"] = "idle") => ~is_recording)
    /\ []((pc["listener"] = "idle" /\ cycle["listener"] # <<>> /\ ~LastCall.ok) =>
             state = "idle")
    /\ [][(state = "idle" /\ OnHotkeyPressed("listener")) =>
                pc'["listener"] = "hk_start"]_vars
    /\ [][SysStartRecording("listener") => StartedAnew("listener")]_vars
    /\ [][(SysStartResult("listener") /\ start_ret["listener"]) =>
                state' = "recording"]_vars

\* After a cycle whose transcription gave no text, the next hotkey has
\* started the second recording.
C26_Witness ==
    /\ state = "recording"
    /\ pc["listener"] = "idle"
    /\ is_recording
    /\ nworkers = 2
    /\ Len(files) = 1
    /\ ~files[1].exists
    /\ typed = <<>>

\* C27: during a session the buffer only grows by appending: a worker step
\* leaves the chunk sequence as it was or extends it at the end by the one
\* chunk the worker has just read; the chunks of the buffer are in the order
\* of their reads from the device; and what stop_recording concatenates is
\* the buffer's chunks in exactly that order.
C27_AppendOnlyInReadOrder ==
    /\ [][\A w \in Workers :
            Worker(w) =>
                \/ audio_data' = audio_data
                \/ /\ Len(audio_data') = Len(audio_data) + 1
                   /\ SubSeq(audio_data', 1, Len(audio_data)) = audio_data
                   /\ audio_data'[Len(audio_data')].id = wchunk[w]
                   /\ wchunk[w] = <<w, reads[w]>>]_vars
    /\ [](\A i, j \in 1..Len(audio_data) :
            i < j => /\ audio_data[i].id[1] = audio_data[j].id[1]
                     /\ audio_data[i].id[2] < audio_data[j].id[2])
    /\ [](\A t \in Callers :
            pc[t] \in {"stop_save", "stop_saved"} =>
                data[t].chunks = ChunkIds(audio_data))

\* A buffer of three chunks, in read order, has been concatenated.
C27_Witness ==
    /\ pc["client"] = "stop_save"
    /\ data["client"].chunks = <<<<1, 1>>, <<1, 2>>, <<1, 3>>>>
    /\ ChunkIds(audio_data) = data["client"].chunks

\* C28: every start_recording that returns True begins a fresh session: in
\* that step the buffer becomes empty, the stop event is cleared and the new
\* worker has not yet run; so every chunk in the buffer, and every chunk a
\* stop_recording concatenates, was read by the worker of the latest start,
\* never by the worker of an earlier session.
C28_StartBeginsFreshSession ==
    /\ [][\A t \in Callers, cb \in Callbacks :
            (StartRecording(t, cb) /\ start_ret'[t]) =>
                /\ audio_data' = <<>>
                /\ ~stop_event'
                /\ nworkers' = nworkers + 1
                /\ Joined' = nworkers'
                /\ wpc'[nworkers'] = "new"]_vars
    /\ [](\A i \in 1..Len(audio_data) : audio_data[i].id[1] = Joined)
    /\ [](\A t \in Callers :
            pc[t] \in {"stop_save", "stop_saved"} =>
                \A i \in 1..Len(data[t].chunks) : data[t].chunks[i][1] = Joined)

\* The second session's stop_recording concatenates two chunks of its own
\* worker; the first session's chunk had been written to a file.
C28_Witness ==
    /\ nworkers = 2
    /\ pc["client"] = "stop_save"
    /\ data["client"].chunks = <<<<2, 1>>, <<2, 2>>>>
    /\ Len(files) = 1
    /\ files[1].chunks = <<<<1, 1>>>>

\* C29: the state is always one of Idle, Recording, Processing; it changes
\* only in a step of the hotkey callback, along Idle -> Recording ->
\* Processing -> Idle; the steps of the capture worker (chunk appended, cap
\* reached, device error) and of the main thread (signal, shutdown) leave it
\* unchanged; so a state of Recording stays Recording, cap or device error
\* or not, while no hotkey callback is in flight.
C29_StateOwnedByHotkeyHandling ==
    /\ [](state \in SystemStates)
    /\ [][state' # state =>
            /\ pc'["listener"] # pc["listener"]
            /\ pc["listener"] # "idle"
            /\ <<state, state'>> \in {<<"idle", "recording">>,
                                      <<"recording", "processing">>,
                                      <<"processing", "idle">>}]_vars
    /\ [][(Main \/ \E w \in Workers : ThreadWorker(w)) => state' = state]_vars
    /\ [][(state = "recording" /\ pc["listener"] = "idle") => state' = "recording"]_vars

\* The worker has stopped at the cap and the state is still Recording.
C29_Witness ==
    /\ state = "recording"
    /\ pc["listener"] = "idle"
    /\ capped
    /\ wpc[1] = "done"
    /\ is_recording

\* C30: a session is consumed at most once: of the shutdown thread's
\* stop_recording and a hotkey-triggered stop_recording on the same active
\* session, at most one concatenates and persists the buffer; never do two
\* callers both hold a concatenation of the session's buffer.
C30_SessionConsumedOnce ==
    \A t, u \in Callers :
        (/\ t # u
         /\ pc[t] \in {"stop_save", "stop_saved"}
         /\ data[t].chunks # <<>>) =>
            ~(pc[u] \in {"stop_save", "stop_saved"} /\ data[u].chunks = data[t].chunks)
\* The ids of the chunks in the buffer, in buffer order.
BufferIds == [i \in 1..Len(audio_data) |-> audio_data[i].id]

\* C31: when the cap is reached the worker exits by itself but the session
\* stays active: until stop_recording is called the engine is still
\* recording with no worker alive, start_recording returns False and the
\* buffer keeps exactly the accumulated chunks; the stop_recording that
\* follows is not refused and concatenates (and on a successful save
\* returns a file of) exactly those chunks.
C31_CapKeepsSessionActive ==
    /\ [](capped =>
            /\ JoinDone(Joined)
            /\ appended # <<>>
            /\ BufferIds = appended
            /\ ~stop_event => is_recording
            /\ \A t \in Callers :
                  stop_event =>
                     /\ pc[t] # "stop_none_empty"
                     /\ pc[t] \in {"stop_save", "stop_saved"} =>
                            data[t].chunks = appended
                     /\ (pc[t] = "stop_saved" /\ stop_ret[t] # 0) =>
                            files[stop_ret[t]].chunks = appended)
    /\ [][\A t \in Callers, cb \in Callbacks :
            /\ (capped /\ ~stop_event /\ StartRecording(t, cb)) =>
                   (~start_ret'[t] /\ UNCHANGED <<engine, workers>>)
            /\ (capped /\ ~stop_event /\ StopCheck(t)) =>
                   pc'[t] = "stop_signal"]_vars

\* After the cap of 250 ms ended the worker at three chunks, a start was
\* refused and the stop that followed saved the three chunks.
C31_Witness ==
    /\ capped
    /\ max_duration = 250
    /\ Len(appended) = 3
    /\ nworkers = 1
    /\ stop_event
    /\ start_ret["client"] = FALSE
    /\ pc["client"] = "stop_saved"
    /\ stop_ret["client"] # 0
    /\ files[stop_ret["client"]].chunks = appended

\* The capture task of the session has been created and has not run yet.
NotYetRun == Joined # 0 /\ wpc[Joined] = "new"

\* C32: in the cooperative model the capture task first runs only when its
\* creator is suspended, so a stop_recording issued after start_recording
\* with no suspension point in between finds the task not yet run; the task
\* then finds the stop event set at its first loop test, reads nothing, and
\* that stop_recording (and every later one of the session) returns None
\* with zero chunks captured.
C32_ImmediateStopReturnsNone ==
    /\ [][\A w \in Workers :
            (model = "coop" /\ RecordOpen(w)) => ~ClientRunning]_vars
    /\ []((model = "coop" /\ stop_event /\ NotYetRun) =>
             (appended = <<>> /\ audio_data = <<>>))
    /\ []((model = "coop" /\ stop_event /\ appended = <<>>) =>
             /\ audio_data = <<>>
             /\ \A w \in Workers : wpc[w] \notin {"read", "cap", "append", "yield"}
             /\ pc["client"] \notin {"stop_save", "stop_saved"}
             /\ pc["client"] \in StopReturned => stop_ret["client"] = 0)

\* The cooperative client stopped before its task had run: the task opened
\* the stream, left at its first loop test, and stop_recording returned None.
C32_Witness ==
    /\ model = "coop"
    /\ stop_event
    /\ nworkers = 1
    /\ wpc[1] = "done"
    /\ failed = "no"
    /\ appended = <<>>
    /\ pc["client"] = "stop_none_empty"
    /\ stop_ret["client"] = 0

\* The files in the storage directory that hold recorded audio.
AudioFiles == {p \in Existing(files) : files[p].chunks # <<>>}

\* No hotkey callback is running on a listener thread.
NoCallbackInFlight == \A h \in Listeners : pc[h] = "idle"

\* The main thread is in run()'s loop (or before it): shutdown has not begun.
NotShuttingDown == pc["main"] \in {"init", "loop"}

\* C33: no persisted audio file outlives its cycle: whenever the state is
\* Idle with no callback in flight (shutdown not under way), and once
\* shutdown has completed, the storage directory holds no file with recorded
\* audio.
C33_NoAudioFileOutlivesCycle ==
    /\ (state = "idle" /\ NoCallbackInFlight /\ NotShuttingDown) => AudioFiles = {}
    /\ pc["main"] = "done" => AudioFiles = {}

\* C34: a max_duration of 0 is treated like an absent maximum: no cap
\* applies (the cap test always falls through to the append), the worker
\* ends only once the stop event is set or a read or the stream has failed,
\* never by itself, and the chunks read are all accumulated.
C34_ZeroMeansNoCap ==
    /\ [](max_duration \in {0, NoneDuration} => ~capped)
    /\ [][\A w \in Workers :
            (max_duration \in {0, NoneDuration} /\ RecordCap(w)) =>
                wpc'[w] = "append"]_vars
    /\ [][\A w \in Workers :
            (max_duration \in {0, NoneDuration} /\ Alive(w) /\ ~Alive(w)') =>
                (stop_event \/ failed # "no")]_vars

\* With max_duration = 0 the worker accumulated every chunk the model lets
\* it read and ended only at the stop, which saved them all.
C34_Witness ==
    /\ max_duration = 0
    /\ ~capped
    /\ failed = "no"
    /\ Len(appended) = MaxReads
    /\ stop_event
    /\ wpc[1] = "done"
    /\ pc["client"] = "stop_saved"
    /\ stop_ret["client"] # 0
    /\ files[stop_ret["client"]].chunks = appended
====
